---- MODULE Spec2Model ----
(***************************************************************************)
(* Model of MCPClient (src/src/AIClient.js, lines 1111-1711): one protocol *)
(* session over a stdio, websocket or sse transport, with request/response *)
(* correlation, per-request timeouts, capability registries and automatic  *)
(* reconnection.                                                           *)
(*                                                                         *)
(* A state is the session object's fields plus what the session's code     *)
(* has handed to the JavaScript runtime: the transport objects it created  *)
(* (each keeps calling the handlers the session installed on it, whether   *)
(* or not this.connection still refers to it), the armed request timers,   *)
(* the armed reconnect timers and the promise of every request.  One       *)
(* action is one run-to-completion callback of the event loop together     *)
(* with the promise continuations it releases.                             *)
(*                                                                         *)
(* Environment assumptions: an 'error' listener is attached to the session *)
(* (AIClient.initializeMcp, lines 433-438); the eventsource package is     *)
(* installed; a websocket closed before it opened reports 'error' and      *)
(* 'close' and never 'open'; a child process that was spawned reports      *)
(* 'spawn' and later 'exit' also when it was killed in between, and one    *)
(* that could not be spawned reports 'error' only; an EventSource retries  *)
(* by itself after an error or gives up, and reports nothing after close().*)
(*                                                                         *)
(* The module has a second specification, SpecDecoder, for the handlers    *)
(* that turn inbound text into messages: the 'data' handler of the child   *)
(* process's stdout, the message handlers of the websocket and of the      *)
(* EventSource, and the 'data' handler of AIClient.generateStream (lines   *)
(* 94-158).  It feeds every text of up to MaxLen symbols to a handler, in  *)
(* every division into chunks.  SpecChunk applies _parseStreamChunk        *)
(* (lines 356-380) to every line of a stream.  SpecLifecycle is the        *)
(* session of a caller that only connects and disconnects, over more       *)
(* transport objects than Spec allows.  SpecFacade is AIClient with one    *)
(* MCP server: initializeMcp (lines 417-469), the _refreshMcp* methods     *)
(* (lines 649-697) and the routed calls (lines 507-573) on top of the      *)
(* session.  SpecFair is Spec with the timers of the runtime firing.       *)
(***************************************************************************)
EXTENDS Integers, Sequences, FiniteSets, TLC

\* Bounds of the model.  A handler that issues one request runs only while
\* requestId is at most MaxReq, and _initialize issues its three list requests
\* only while requestId is below MaxReq, so that ids stay within
\* 1 .. MaxReq + 2.  MaxLen is the length of the longest inbound text.
\* MaxConns is the number of transport objects a session creates, and
\* MaxCycleConns that number for a session whose caller issues no request.
MaxReq == 2
MaxConns == 2
maxReconnectAttempts == 2
MaxLen == 5
MaxCycleConns == 4
MaxId == MaxReq + 2

Transports == {"stdio", "sse", "websocket"}
Collections == {{}, {"a", "b"}, {"b", "c"}}

\* What a request was issued for: the continuation that awaits its future.
Kinds == {"_initialize", "tools/list", "resources/list", "prompts/list", "call"}
CallerKinds == {"tools/list", "resources/list", "prompts/list", "call"}

\* Notification methods of _handleNotification; "other" is any other method,
\* "none" is a message without a method field.
NotifMethods == {"notifications/resources/updated",
                 "notifications/resources/list_changed",
                 "notifications/tools/list_changed",
                 "notifications/prompts/list_changed",
                 "other"}

\* Decoded inbound messages.  id = -1: no id field; id = 0: an id that is
\* falsy in JavaScript; error: an error field is present; result: the
\* collection carried by a list result.
\* A message without a truthy id carries no result that is looked at, and one
\* with an error field no result at all.
Messages ==
  {m \in [id : -1 .. MaxId, error : BOOLEAN,
          method : NotifMethods \cup {"none"}, result : Collections] :
     /\ (m.error \/ m.id <= 0) => m.result = {}
     /\ m.id <= 0 => ~m.error
     /\ m.id > 0 => m.method \in {"none", "other"}}

VARIABLES
  transport,          \* this.transport
  connection,         \* this.connection: 0 is null, else an index of conns
  isConnected,        \* this.isConnected
  requestId,          \* this.requestId
  pendingRequests,    \* keys of this.pendingRequests
  tools,              \* keys of this.tools
  resources,          \* keys of this.resources
  prompts,            \* keys of this.prompts
  reconnectAttempts,  \* this.reconnectAttempts
  shouldReconnect,    \* this.shouldReconnect
  conns,              \* transport objects created so far
  timers,             \* ids whose setTimeout of sendRequest is armed
  reconnectTimers,    \* number of armed setTimeouts of _handleReconnect
  future,             \* state of the promise returned by sendRequest, per id
  kind,               \* the continuation awaiting each unsettled future
  issued,             \* ids in the order sendRequest assigned them
  disconnected,       \* disconnect() was called and connect() was not
                      \* called by the caller since
  autoAttempts,       \* reconnections _handleReconnect scheduled since the
                      \* caller last called connect()
  exhausted,          \* the session once stopped with its attempts used up
  decoder,            \* the handler the inbound text is fed to
  apiFormat,          \* AIClient's this.apiFormat
  inbound,            \* text that has not arrived yet
  arrived,            \* text that has arrived
  buffer,             \* `buffer` of the 'data' handler
  handed,             \* messages handed to _handleMessage / onChunk, in order
  errors,             \* number of 'error' events the handler emitted
  streamLine,         \* the line _parseStreamChunk is called with
  streamChunk,        \* what _parseStreamChunk returned or threw
  mcpTools,           \* keys of AIClient's this.mcpTools
  mcpResources,       \* keys of AIClient's this.mcpResources
  mcpPrompts,         \* keys of AIClient's this.mcpPrompts
  serverConfig,       \* the entry of AIClient's this.mcpServers
  mcpClients,         \* keys of AIClient's this.mcpClients
  facadeRequests,     \* ids of the list requests issued for _refreshMcp*
  initializeMcp       \* where AIClient.initializeMcp stands, and the id of
                      \* the request it awaits

decoderVars == <<decoder, apiFormat, inbound, arrived, buffer, handed, errors>>

chunkVars == <<streamLine, streamChunk>>

facadeVars ==
  <<mcpTools, mcpResources, mcpPrompts, serverConfig, mcpClients,
    facadeRequests, initializeMcp>>

clientVars == <<decoderVars, chunkVars, facadeVars>>

sessionVars == <<transport, connection, isConnected, requestId,
                 pendingRequests, tools, resources, prompts,
                 reconnectAttempts, shouldReconnect, conns, timers,
                 reconnectTimers, future, kind, issued, disconnected,
                 autoAttempts, exhausted>>

vars == <<transport, connection, isConnected, requestId, pendingRequests,
          tools, resources, prompts, reconnectAttempts, shouldReconnect,
          conns, timers, reconnectTimers, future, kind, issued, disconnected,
          autoAttempts, exhausted, decoder, apiFormat, inbound, arrived,
          buffer, handed,
          errors,
          streamLine, streamChunk, mcpTools, mcpResources, mcpPrompts,
          serverConfig, mcpClients, facadeRequests, initializeMcp>>

Ids == 1 .. MaxId

\* No line has been given to _parseStreamChunk, and it has not returned.
NoLine ==
  [prefix |-> "none", text |-> "none", choices |-> "absent",
   content |-> "absent", finish_reason |-> "absent",
   response |-> "absent", done |-> "absent"]

NotCalled == [value |-> "none", response |-> "absent", done |-> "absent"]

\* AIClient after construction: its maps are empty and initializeMcp has not
\* been called.
\* Entries of mcpServers: name "undefined" is a configuration without a
\* name field.
NamedServer == [name |-> "srv", serverUrl |-> "url"]

ServerConfigs == {NamedServer, [name |-> "undefined", serverUrl |-> "url"]}

FacadeInit ==
  /\ mcpTools = {}
  /\ mcpResources = {}
  /\ mcpPrompts = {}
  /\ mcpClients = {}
  /\ facadeRequests = {}
  /\ initializeMcp = [at |-> "idle", id |-> 0]

\* The session after construction.
SessionInit ==
  /\ transport \in Transports
  /\ connection = 0
  /\ isConnected = FALSE
  /\ requestId = 0
  /\ pendingRequests = {}
  /\ tools = {}
  /\ resources = {}
  /\ prompts = {}
  /\ reconnectAttempts = 0
  /\ shouldReconnect = TRUE
  /\ conns = <<>>
  /\ timers = {}
  /\ reconnectTimers = 0
  /\ future = [i \in Ids |-> "none"]
  /\ kind = [i \in Ids |-> "none"]
  /\ issued = <<>>
  /\ disconnected = FALSE
  /\ autoAttempts = 0
  /\ exhausted = FALSE

\* No text is on its way.
Init ==
  /\ SessionInit
  /\ decoder = "transport"
  /\ apiFormat = "deepseek"
  /\ inbound = <<>>
  /\ arrived = <<>>
  /\ buffer = <<>>
  /\ handed = <<>>
  /\ errors = 0
  /\ streamLine = NoLine
  /\ streamChunk = NotCalled
  /\ FacadeInit
  /\ serverConfig = NamedServer

\* A promise settles once: resolve and reject of a settled promise do nothing.
Settle_All(f, id, outcome) ==
  [i \in Ids |-> IF f[i] = "pending" THEN outcome ELSE f[i]]

Settle(f, id, outcome) ==
  IF f[id] = "pending" THEN [f EXCEPT ![id] = outcome] ELSE f

\* The continuation of a settled future has run and is gone.
Ran(k, id) == [k EXCEPT ![id] = "none"]

\* _sendMessage throws for the sse transport, and dereferences
\* this.connection, which throws when it is null.
SendThrows_NullOnly(conn) == conn = 0

SendThrows(conn) == transport = "sse" \/ conn = 0

\* The error _sendMessage throws: websocket and stdio dereference the
\* handle, the sse case of the switch does not look at it.
SendError(conn) ==
  CASE transport = "sse" -> "SSE transport does not support sending messages"
    [] transport # "sse" /\ conn = 0 -> "TypeError"
    [] OTHER -> "none"

\* The request bookkeeping sendRequest works on.
Correlator ==
  [requestId |-> requestId, pendingRequests |-> pendingRequests,
   timers |-> timers, future |-> future, kind |-> kind, issued |-> issued]

\* sendRequest's `++this.requestId`.
NextId_NotStored(rid) == IF rid = 0 THEN 1 ELSE rid

NextId(rid) == rid + 1

\* sendRequest(method) in correlator state s, with the given isConnected and
\* connection.  Not connected: throws, nothing changes.  Otherwise the id is
\* allocated, the timer armed and the entry stored before _sendMessage runs;
\* a throw of _sendMessage inside the promise executor rejects the promise.
sendRequest_NoTimer(s, k, connected, conn) ==
  IF ~connected THEN s
  ELSE LET id == NextId(s.requestId) IN
       [requestId |-> id,
        pendingRequests |-> s.pendingRequests \cup {id},
        timers |-> s.timers,
        future |-> [s.future EXCEPT ![id] =
                      IF SendThrows(conn) THEN "sendfail" ELSE "pending"],
        kind |-> [s.kind EXCEPT ![id] =
                    IF SendThrows(conn) THEN "none" ELSE k],
        issued |-> Append(s.issued, id)]

sendRequest(s, k, connected, conn) ==
  IF ~connected THEN s
  ELSE LET id == NextId(s.requestId) IN
       [requestId |-> id,
        pendingRequests |-> s.pendingRequests \cup {id},
        timers |-> s.timers \cup {id},
        future |-> [s.future EXCEPT ![id] =
                      IF SendThrows(conn) THEN "sendfail" ELSE "pending"],
        kind |-> [s.kind EXCEPT ![id] =
                    IF SendThrows(conn) THEN "none" ELSE k],
        issued |-> Append(s.issued, id)]

\* Number of ids a call of sendRequest takes.
Takes(connected) == IF connected THEN 1 ELSE 0

\* The ids a handler takes stay within the bounds of the model.
Room(n) ==
  \/ n = 0
  \/ n = 1 /\ requestId <= MaxReq
  \/ n > 1 /\ requestId + n <= MaxId

SetCorrelator(s) ==
  /\ requestId' = s.requestId
  /\ pendingRequests' = s.pendingRequests
  /\ timers' = s.timers
  /\ future' = s.future
  /\ kind' = s.kind
  /\ issued' = s.issued

\* _handleReconnect: the new <<reconnectAttempts, reconnectTimers>>.
CanReconnect(should, attempts) ==
  should /\ attempts < maxReconnectAttempts

_handleReconnect(should, attempts, nTimers) ==
  IF CanReconnect(should, attempts)
    THEN <<attempts + 1, nTimers + 1>>
    ELSE <<attempts, nTimers>>

\* The attempt number of the 'reconnecting' event _handleReconnect emits
\* when it is called, before it arms the timer; 0 is no event.
Reconnecting(should, attempts) ==
  IF CanReconnect(should, attempts) THEN attempts + 1 ELSE 0

\* The session has stopped in Disconnected with its attempts used up: the
\* counter is at the maximum, so that _handleReconnect declines, no transport
\* object is alive and no reconnect timer is armed.
Exhausted(attempts, connected, nTimers, objects) ==
  /\ attempts >= maxReconnectAttempts
  /\ ~connected
  /\ nTimers = 0
  /\ objects # <<>>
  /\ \A c \in 1 .. Len(objects) : objects[c].st = "closed"

\* connect() up to its first await: _connectSSE, _connectWebSocket or
\* _connectStdio creates the transport object and stores it.
OpenTransport(limit) ==
  /\ Len(conns) < limit
  /\ conns' = Append(conns, [st |-> "opening"])
  /\ connection' = Len(conns) + 1

\* The caller calls connect().
Connect ==
  /\ OpenTransport(MaxConns)
  /\ disconnected' = FALSE
  /\ autoAttempts' = 0
  /\ UNCHANGED <<transport, isConnected, requestId, pendingRequests, tools,
                 resources, prompts, reconnectAttempts, shouldReconnect,
                 timers, reconnectTimers, future, kind, issued>>
  /\ UNCHANGED exhausted
  /\ UNCHANGED clientVars

\* The timer armed by _handleReconnect fires and calls connect().
ReconnectTimerFires ==
  /\ reconnectTimers > 0
  /\ reconnectTimers' = reconnectTimers - 1
  /\ OpenTransport(MaxConns)
  /\ UNCHANGED <<transport, isConnected, requestId, pendingRequests, tools,
                 resources, prompts, reconnectAttempts, shouldReconnect,
                 timers, future, kind, issued, disconnected, autoAttempts>>
  /\ UNCHANGED exhausted
  /\ UNCHANGED clientVars

\* The transport reports that it is open ('open', 'spawn', onopen): the
\* awaiting connect() resumes, marks the session connected, resets the
\* attempt counter and runs _initialize, which sends the initialize request.
TransportOpen(c) ==
  /\ c \in 1 .. Len(conns)
  /\ conns[c].st = "opening"
  /\ Room(1)
  /\ conns' = [conns EXCEPT ![c].st = "open"]
  /\ isConnected' = TRUE
  /\ reconnectAttempts' = 0
  /\ SetCorrelator(sendRequest(Correlator, "_initialize", TRUE, connection))
  /\ UNCHANGED <<transport, connection, tools, resources, prompts,
                 shouldReconnect, reconnectTimers, disconnected, autoAttempts>>
  /\ UNCHANGED exhausted
  /\ UNCHANGED clientVars

\* An EventSource that retried by itself reports open again: onopen resolves
\* a promise that is already settled.
SseReopen(c) ==
  /\ c \in 1 .. Len(conns)
  /\ transport = "sse"
  /\ conns[c].st = "retrying"
  /\ conns' = [conns EXCEPT ![c].st = "open"]
  /\ UNCHANGED <<transport, connection, isConnected, requestId,
                 pendingRequests, tools, resources, prompts, reconnectAttempts,
                 shouldReconnect, timers, reconnectTimers, future, kind,
                 issued, disconnected, autoAttempts>>
  /\ UNCHANGED exhausted
  /\ UNCHANGED clientVars

\* The transport fails before it opened.  websocket: 'error' rejects the
\* connect() promise and 'close' follows, whose handler clears isConnected and
\* calls _handleReconnect.  stdio: 'error' rejects the promise; no 'exit'.
TransportOpenError(c) ==
  /\ c \in 1 .. Len(conns)
  /\ \/ transport = "websocket" /\ conns[c].st \in {"opening", "aborted"}
     \/ transport = "stdio" /\ conns[c].st = "opening"
  /\ conns' = [conns EXCEPT ![c].st = "closed"]
  /\ IF transport = "websocket"
       THEN LET r == _handleReconnect(shouldReconnect, reconnectAttempts,
                                      reconnectTimers) IN
            /\ isConnected' = FALSE
            /\ reconnectAttempts' = r[1]
            /\ reconnectTimers' = r[2]
            /\ autoAttempts' = autoAttempts + (r[1] - reconnectAttempts)
       ELSE UNCHANGED <<isConnected, reconnectAttempts, reconnectTimers,
                        autoAttempts>>
  /\ UNCHANGED <<transport, connection, requestId, pendingRequests, tools,
                 resources, prompts, shouldReconnect, timers, future, kind,
                 issued, disconnected>>
  /\ exhausted' = (exhausted \/ Exhausted(reconnectAttempts', isConnected',
                                          reconnectTimers', conns'))
  /\ UNCHANGED clientVars

\* The handler the session installs for a transport that closes after it
\* opened: websocket 'close', stdio 'exit'.
OnClose ==
  LET r == _handleReconnect(shouldReconnect, reconnectAttempts,
                            reconnectTimers) IN
  /\ isConnected' = FALSE
  /\ reconnectAttempts' = r[1]
  /\ reconnectTimers' = r[2]
  /\ autoAttempts' = autoAttempts + (r[1] - reconnectAttempts)
  /\ UNCHANGED <<connection, requestId, pendingRequests, tools, resources,
                 prompts, shouldReconnect, timers, future, kind, issued>>

\* An open websocket closes, or the child process exits.
TransportClose(c) ==
  /\ c \in 1 .. Len(conns)
  /\ transport \in {"websocket", "stdio"}
  /\ conns[c].st = "open"
  /\ conns' = [conns EXCEPT ![c].st = "closed"]
  /\ OnClose
  /\ UNCHANGED <<transport, disconnected>>
  /\ exhausted' = (exhausted \/ Exhausted(reconnectAttempts', isConnected',
                                          reconnectTimers', conns'))
  /\ UNCHANGED clientVars

\* The handler the session installs as onerror of the EventSource.
OnSseError ==
  LET r == _handleReconnect(shouldReconnect, reconnectAttempts,
                            reconnectTimers) IN
  /\ reconnectAttempts' = r[1]
  /\ reconnectTimers' = r[2]
  /\ autoAttempts' = autoAttempts + (r[1] - reconnectAttempts)
  /\ UNCHANGED <<connection, isConnected, requestId, pendingRequests, tools,
                 resources, prompts, shouldReconnect, timers, future, kind,
                 issued>>

\* The EventSource reports an error; it then retries by itself or gives up.
SseError(c) ==
  /\ c \in 1 .. Len(conns)
  /\ transport = "sse"
  /\ conns[c].st \in {"opening", "open", "retrying"}
  /\ \E gaveUp \in BOOLEAN :
       conns' = [conns EXCEPT ![c].st =
                   IF gaveUp THEN "closed"
                   ELSE IF conns[c].st = "opening" THEN "opening"
                   ELSE "retrying"]
  /\ OnSseError
  /\ UNCHANGED <<transport, disconnected>>
  /\ exhausted' = (exhausted \/ Exhausted(reconnectAttempts', isConnected',
                                          reconnectTimers', conns'))
  /\ UNCHANGED clientVars

\* What connection.close() / connection.kill() of disconnect() does to the
\* transport object: an opening websocket is aborted, an EventSource is
\* closed for good, an open websocket and a child process report their end
\* later.
Closed(st) ==
  CASE transport = "websocket" /\ st = "opening" -> "aborted"
    [] transport = "sse" /\ st # "closed" -> "closed"
    [] OTHER -> st

\* The pending futures after disconnect() rejected them.
RejectAll_Skipped(f, ids) == f

RejectAll(f, ids) ==
  [i \in Ids |-> IF i \in ids /\ f[i] = "pending" THEN "closed" ELSE f[i]]

\* `if (this.connection)`: disconnect() closes the transport it holds a
\* handle of.
ClosesTransport_Always(conn) == TRUE

ClosesTransport(conn) == conn # 0

\* What disconnect() works on; thrown is whether the call threw.
DisconnectState ==
  [shouldReconnect |-> shouldReconnect, isConnected |-> isConnected,
   conns |-> conns, connection |-> connection, future |-> future,
   kind |-> kind, pendingRequests |-> pendingRequests, thrown |-> FALSE]

\* disconnect() in state s.  Calling close() or kill() on a null handle
\* throws, after the two flags were cleared.
disconnect(s) ==
  IF ClosesTransport(s.connection) /\ s.connection = 0
    THEN [s EXCEPT !.shouldReconnect = FALSE, !.isConnected = FALSE,
                   !.thrown = TRUE]
    ELSE [shouldReconnect |-> FALSE,
          isConnected |-> FALSE,
          conns |-> IF ClosesTransport(s.connection)
                      THEN [s.conns EXCEPT ![s.connection].st = Closed(@)]
                      ELSE s.conns,
          connection |-> IF ClosesTransport(s.connection)
                           THEN 0 ELSE s.connection,
          future |-> RejectAll(s.future, s.pendingRequests),
          kind |-> [i \in Ids |-> IF i \in s.pendingRequests
                                    THEN "none" ELSE s.kind[i]],
          pendingRequests |-> {},
          thrown |-> FALSE]

\* The caller calls disconnect().
Disconnect ==
  /\ shouldReconnect' = disconnect(DisconnectState).shouldReconnect
  /\ isConnected' = disconnect(DisconnectState).isConnected
  /\ conns' = disconnect(DisconnectState).conns
  /\ connection' = disconnect(DisconnectState).connection
  /\ future' = disconnect(DisconnectState).future
  /\ kind' = disconnect(DisconnectState).kind
  /\ pendingRequests' = disconnect(DisconnectState).pendingRequests
  /\ disconnected' = TRUE
  /\ UNCHANGED <<transport, requestId, tools, resources, prompts,
                 reconnectAttempts, reconnectTimers, timers, issued,
                 autoAttempts>>
  /\ exhausted' = (exhausted \/ Exhausted(reconnectAttempts', isConnected',
                                          reconnectTimers', conns'))
  /\ UNCHANGED clientVars

\* The caller calls one of the operations that await sendRequest: listTools,
\* listResources, listPrompts, or ("call") subscribeToResource,
\* unsubscribeFromResource, getServerInfo.
SendRequest(k) ==
  /\ k \in CallerKinds
  /\ Room(Takes(isConnected))
  /\ SetCorrelator(sendRequest(Correlator, k, isConnected, connection))
  /\ UNCHANGED <<transport, connection, isConnected, tools, resources,
                 prompts, reconnectAttempts, shouldReconnect, conns,
                 reconnectTimers, disconnected, autoAttempts>>
  /\ UNCHANGED exhausted
  /\ UNCHANGED clientVars

\* The keys a descriptor can have, and the registry of a category.
Keys == UNION Collections

Categories == {"tools", "resources", "prompts"}

Registry(cat) ==
  CASE cat = "tools" -> tools
    [] cat = "resources" -> resources
    [] cat = "prompts" -> prompts

\* callTool(name), readResource(uri), getPrompt(name) in correlator state s,
\* with the registry of their category as cache: each awaits sendRequest
\* with the key and looks at no registry.
callTool_FromCache(s, key, cache, connected, conn) ==
  IF key \in cache THEN s ELSE sendRequest(s, "call", connected, conn)

callTool(s, key, cache, connected, conn) ==
  sendRequest(s, "call", connected, conn)

\* The caller calls callTool, readResource or getPrompt with a key.
CallTool(cat, key) ==
  /\ cat \in Categories
  /\ key \in Keys
  /\ Room(Takes(isConnected))
  /\ SetCorrelator(callTool(Correlator, key, Registry(cat), isConnected,
                            connection))
  /\ UNCHANGED <<transport, connection, isConnected, tools, resources,
                 prompts, reconnectAttempts, shouldReconnect, conns,
                 reconnectTimers, disconnected, autoAttempts>>
  /\ UNCHANGED exhausted
  /\ UNCHANGED clientVars

\* The pending map after the timeout callback of request id.
EntriesAfterTimeout_Kept(pend, id) == pend

EntriesAfterTimeout(pend, id) == pend \ {id}

\* The timeout callback of request id runs.
Timeout(id) ==
  /\ id \in timers
  /\ timers' = timers \ {id}
  /\ pendingRequests' = EntriesAfterTimeout(pendingRequests, id)
  /\ future' = Settle(future, id, "timeout")
  /\ kind' = Ran(kind, id)
  /\ UNCHANGED <<transport, connection, isConnected, requestId, tools,
                 resources, prompts, reconnectAttempts, shouldReconnect,
                 conns, reconnectTimers, issued, disconnected, autoAttempts>>
  /\ UNCHANGED exhausted
  /\ UNCHANGED clientVars

\* The list request a list_changed notification makes the session issue.
RefreshKind_Updated(method) ==
  CASE method = "notifications/resources/updated" -> "resources/list"
    [] method = "notifications/resources/list_changed" -> "resources/list"
    [] method = "notifications/tools/list_changed" -> "tools/list"
    [] method = "notifications/prompts/list_changed" -> "prompts/list"
    [] OTHER -> "none"

RefreshKind(method) ==
  CASE method = "notifications/resources/list_changed" -> "resources/list"
    [] method = "notifications/tools/list_changed" -> "tools/list"
    [] method = "notifications/prompts/list_changed" -> "prompts/list"
    [] OTHER -> "none"

\* _handleMessage takes the response branch: the id is truthy and has an
\* entry in the pending map (whatever else the message carries).
IsResponse_AnyId(m, pend) == m.id > 0

IsResponse(m, pend) == m.id > 0 /\ m.id \in pend

\* _handleMessage takes the notification branch: no id, or a falsy one.
IsNotification(m, pend) == ~IsResponse(m, pend) /\ m.id <= 0

\* The branch _handleMessage takes for m; "ignored" is neither.
Branch(m, pend) ==
  IF IsResponse(m, pend) THEN "response"
  ELSE IF IsNotification(m, pend) THEN "notification"
  ELSE "ignored"

\* The pending map after the response branch of _handleMessage.
EntriesAfterResponse_Kept(pend, id) == pend

EntriesAfterResponse(pend, id) == pend \ {id}

\* The outcome the response branch of _handleMessage gives the future.
Outcome_AlwaysResolved(m) == "result"

Outcome(m) == IF m.error THEN "error" ELSE "result"

\* The three list requests _initialize issues once getServerInfo resolved.
InitialLists(s, connected, conn) ==
  sendRequest(sendRequest(sendRequest(s, "tools/list", connected, conn),
                          "resources/list", connected, conn),
              "prompts/list", connected, conn)

\* Ids the handling of message m takes.
Needed(m) ==
  IF IsResponse(m, pendingRequests)
    THEN IF kind[m.id] = "_initialize" /\ future[m.id] = "pending" /\ ~m.error
           THEN 3 * Takes(isConnected) ELSE 0
    ELSE IF IsNotification(m, pendingRequests) /\ RefreshKind(m.method) # "none"
           THEN Takes(isConnected) ELSE 0

\* A registry after the future of a request of kind k resolved with m:
\* listTools, listResources and listPrompts clear the registry and fill it
\* with the collection of the response.
Listed_ClearedFirst(reg, listKind, k, resolved, m) ==
  IF k = listKind THEN (IF resolved THEN m.result ELSE {}) ELSE reg

Listed_Merged(reg, listKind, k, resolved, m) ==
  IF resolved /\ k = listKind THEN reg \cup m.result ELSE reg

Listed(reg, listKind, k, resolved, m) ==
  IF resolved /\ k = listKind THEN m.result ELSE reg

\* The event _handleMessage emits for m.
Emitted(m, pend) ==
  IF Branch(m, pend) # "notification" THEN "none"
  ELSE CASE m.method = "notifications/resources/updated" -> "resource_updated"
         [] m.method = "notifications/resources/list_changed"
              -> "resources_changed"
         [] m.method = "notifications/tools/list_changed" -> "tools_changed"
         [] m.method = "notifications/prompts/list_changed"
              -> "prompts_changed"
         [] OTHER -> "notification"

\* How a promise returned by sendRequest, and with it the promise of the
\* list operation awaiting it, can be rejected.
Rejections == {"NotConnected", "sendfail", "timeout", "error", "closed"}

\* The promise `listX().catch(() => {})` of _handleNotification and
\* _initialize, for a list operation that ends with outcome.
Caught_Rethrown(outcome) == outcome

Caught(outcome) == IF outcome \in Rejections THEN "undefined" ELSE outcome

\* How the list operation started by a list_changed notification stands when
\* _handleNotification returns.
RefreshOutcome(connected, conn) ==
  IF ~connected THEN "NotConnected"
  ELSE IF SendThrows(conn) THEN "sendfail"
  ELSE "pending"

\* The request bookkeeping and the registries.
Session ==
  [correlator |-> Correlator, tools |-> tools, resources |-> resources,
   prompts |-> prompts]

\* Session after _handleMessage(m) and the continuations of a future it
\* settled have run.
AfterMessage(m) ==
  IF IsResponse(m, pendingRequests)
    THEN LET resolved == future[m.id] = "pending" /\ ~m.error
             k == kind[m.id]
             s1 == [Correlator EXCEPT
                      !.pendingRequests = EntriesAfterResponse(@, m.id),
                      !.timers = @ \ {m.id},
                      !.future = Settle(@, m.id, Outcome(m)),
                      !.kind = Ran(@, m.id)]
             s2 == IF resolved /\ k = "_initialize"
                     THEN InitialLists(s1, isConnected, connection)
                     ELSE s1
         IN [correlator |-> s2,
             tools |-> Listed(tools, "tools/list", k, resolved, m),
             resources |-> Listed(resources, "resources/list", k, resolved,
                                  m),
             prompts |-> Listed(prompts, "prompts/list", k, resolved, m)]
    ELSE IF IsNotification(m, pendingRequests)
              /\ RefreshKind(m.method) # "none"
      THEN [Session EXCEPT
              !.correlator = sendRequest(Correlator, RefreshKind(m.method),
                                         isConnected, connection)]
      ELSE Session

\* A message arrives on an open transport object c and is handed to
\* _handleMessage; the continuations of a future it settles run with it.
HandleMessage(c, m) ==
  /\ c \in 1 .. Len(conns)
  /\ conns[c].st = "open"
  /\ m \in Messages
  /\ Room(Needed(m))
  /\ SetCorrelator(AfterMessage(m).correlator)
  /\ tools' = AfterMessage(m).tools
  /\ resources' = AfterMessage(m).resources
  /\ prompts' = AfterMessage(m).prompts
  /\ UNCHANGED <<transport, connection, isConnected, reconnectAttempts,
                 shouldReconnect, conns, reconnectTimers, disconnected,
                 autoAttempts>>
  /\ UNCHANGED exhausted
  /\ UNCHANGED clientVars

Next ==
  \/ Connect
  \/ ReconnectTimerFires
  \/ \E c \in 1 .. MaxConns : TransportOpen(c)
  \/ \E c \in 1 .. MaxConns : SseReopen(c)
  \/ \E c \in 1 .. MaxConns : TransportOpenError(c)
  \/ \E c \in 1 .. MaxConns : TransportClose(c)
  \/ \E c \in 1 .. MaxConns : SseError(c)
  \/ Disconnect
  \/ \E k \in CallerKinds : SendRequest(k)
  \/ \E cat \in Categories, key \in Keys : CallTool(cat, key)
  \/ \E id \in Ids : Timeout(id)
  \/ \E c \in 1 .. MaxConns, m \in Messages : HandleMessage(c, m)

Spec == Init /\ [][Next]_vars

\* The timers of Node fire: a timeout callback that is armed runs in the
\* end.
SpecFair == Spec /\ \A id \in Ids : WF_vars(Timeout(id))

-----------------------------------------------------------------------------
\* The connection lifecycle of a session whose caller only connects and
\* disconnects and whose provider sends nothing: the session may then go
\* through MaxCycleConns transport objects.

\* The caller calls connect().
CycleConnect ==
  /\ OpenTransport(MaxCycleConns)
  /\ disconnected' = FALSE
  /\ autoAttempts' = 0
  /\ UNCHANGED <<transport, isConnected, requestId, pendingRequests, tools,
                 resources, prompts, reconnectAttempts, shouldReconnect,
                 timers, reconnectTimers, future, kind, issued>>
  /\ UNCHANGED exhausted
  /\ UNCHANGED clientVars

\* The timer armed by _handleReconnect fires and calls connect().
CycleTimerFires ==
  /\ reconnectTimers > 0
  /\ reconnectTimers' = reconnectTimers - 1
  /\ OpenTransport(MaxCycleConns)
  /\ UNCHANGED <<transport, isConnected, requestId, pendingRequests, tools,
                 resources, prompts, reconnectAttempts, shouldReconnect,
                 timers, future, kind, issued, disconnected, autoAttempts>>
  /\ UNCHANGED exhausted
  /\ UNCHANGED clientVars

LifecycleNext ==
  \/ CycleConnect
  \/ CycleTimerFires
  \/ \E c \in 1 .. MaxCycleConns : TransportOpen(c)
  \/ \E c \in 1 .. MaxCycleConns : SseReopen(c)
  \/ \E c \in 1 .. MaxCycleConns : TransportOpenError(c)
  \/ \E c \in 1 .. MaxCycleConns : TransportClose(c)
  \/ \E c \in 1 .. MaxCycleConns : SseError(c)
  \/ Disconnect

SpecLifecycle == Init /\ [][LifecycleNext]_vars

-----------------------------------------------------------------------------
\* AIClient with one MCP server whose transport opens and stays open:
\* initializeMcp connects the session and refreshes the three maps one after
\* the other, and the listeners it installed refresh a map when the session
\* emits tools_changed, resources_changed or prompts_changed.

ListKinds == {"tools/list", "resources/list", "prompts/list"}

\* Ids are at hand for n more requests.
FacadeRoom(n) == requestId + n <= MaxId

\* A map after the loop of _refreshMcpTools, _refreshMcpResources or
\* _refreshMcpPrompts over the list that listX() returned: one set() per
\* descriptor, under its name or uri.
Refreshed(map, list) == map \cup list

McpMaps ==
  [tools |-> mcpTools, resources |-> mcpResources, prompts |-> mcpPrompts]

\* The maps after the future of request id, awaited by a _refreshMcp* when
\* it is in facadeRequests, got response m.
RefreshedMaps(maps, id, m) ==
  IF id \in facadeRequests /\ future[id] = "pending" /\ ~m.error
    THEN CASE kind[id] = "tools/list"
                -> [maps EXCEPT !.tools = Refreshed(@, m.result)]
           [] kind[id] = "resources/list"
                -> [maps EXCEPT !.resources = Refreshed(@, m.result)]
           [] kind[id] = "prompts/list"
                -> [maps EXCEPT !.prompts = Refreshed(@, m.result)]
           [] OTHER -> maps
    ELSE maps

\* The requests of the session and of AIClient, and where initializeMcp is.
Mcp(s) ==
  [correlator |-> s, facadeRequests |-> facadeRequests,
   initializeMcp |-> initializeMcp, mcpClients |-> mcpClients]

\* The key initializeMcp stores the session under in mcpClients:
\* `serverConfig.name || serverConfig.serverUrl`.
ClientKey(cfg) == IF cfg.name # "undefined" THEN cfg.name ELSE cfg.serverUrl

\* The serverName the _refreshMcp* put into every descriptor: the
\* `serverConfig.name` initializeMcp and its listeners call them with.
OwnerName(cfg) == cfg.name

\* What initializeMcp awaits has settled: connect(), which returns when the
\* initialize request and the list requests of the session have settled, or
\* the list request of the _refreshMcp* it is in.
AwaitedSettled(st) ==
  CASE st.initializeMcp.at = "connect"
         -> /\ st.correlator.requestId >= 1
            /\ \A id \in 1 .. st.correlator.requestId :
                 id \notin st.facadeRequests
                   => st.correlator.future[id] # "pending"
    [] st.initializeMcp.at \in ListKinds
         -> \/ st.initializeMcp.id = 0
            \/ st.correlator.future[st.initializeMcp.id] # "pending"
    [] OTHER -> FALSE

\* The statement of initializeMcp after the one it is at.
NextRefresh(at) ==
  CASE at = "connect" -> "tools/list"
    [] at = "tools/list" -> "resources/list"
    [] at = "resources/list" -> "prompts/list"
    [] OTHER -> "done"

\* initializeMcp runs on for as long as what it awaits has settled; a
\* _refreshMcp* whose listX() throws catches the error and returns.  It
\* stops at "overflow" when the ids of the model are used up.
RECURSIVE AdvanceMcp(_, _, _)
AdvanceMcp(st, connected, conn) ==
  IF ~AwaitedSettled(st) THEN st
  ELSE LET k == NextRefresh(st.initializeMcp.at)
           id == NextId(st.correlator.requestId)
           \* connect() returned: the session is stored in mcpClients
           stored == IF st.initializeMcp.at = "connect"
                       THEN st.mcpClients \cup {ClientKey(serverConfig)}
                       ELSE st.mcpClients
       IN IF k = "done"
            THEN [st EXCEPT !.initializeMcp = [at |-> "done", id |-> 0],
                            !.mcpClients = stored]
          ELSE IF connected /\ id > MaxId
            THEN [st EXCEPT !.initializeMcp = [at |-> "overflow", id |-> 0],
                            !.mcpClients = stored]
          ELSE AdvanceMcp(
                 [correlator |-> sendRequest(st.correlator, k, connected,
                                             conn),
                  facadeRequests |-> IF connected
                                       THEN st.facadeRequests \cup {id}
                                       ELSE st.facadeRequests,
                  initializeMcp |-> [at |-> k,
                                     id |-> IF connected THEN id ELSE 0],
                  mcpClients |-> stored],
                 connected, conn)

SetMcp(st) ==
  /\ SetCorrelator(st.correlator)
  /\ facadeRequests' = st.facadeRequests
  /\ initializeMcp' = st.initializeMcp
  /\ mcpClients' = st.mcpClients
  /\ UNCHANGED serverConfig

\* initializeMcp creates the session, installs the listeners and calls
\* connect().
InitializeMcp ==
  /\ initializeMcp.at = "idle"
  /\ OpenTransport(1)
  /\ disconnected' = FALSE
  /\ autoAttempts' = 0
  /\ initializeMcp' = [at |-> "connect", id |-> 0]
  /\ UNCHANGED <<transport, isConnected, requestId, pendingRequests, tools,
                 resources, prompts, reconnectAttempts, shouldReconnect,
                 timers, reconnectTimers, future, kind, issued, exhausted>>
  /\ UNCHANGED <<decoderVars, chunkVars, mcpTools, mcpResources, mcpPrompts,
                 serverConfig, mcpClients, facadeRequests>>

\* The transport of the session reports that it is open: connect() resumes
\* and sends the initialize request, and initializeMcp resumes when the send
\* failed.
McpTransportOpen ==
  /\ conns # <<>>
  /\ conns[1].st = "opening"
  /\ FacadeRoom(1)
  /\ conns' = [conns EXCEPT ![1].st = "open"]
  /\ isConnected' = TRUE
  /\ reconnectAttempts' = 0
  /\ SetMcp(AdvanceMcp(Mcp(sendRequest(Correlator, "_initialize", TRUE,
                                        connection)),
                        TRUE, connection))
  /\ UNCHANGED <<transport, connection, tools, resources, prompts,
                 shouldReconnect, reconnectTimers, disconnected, autoAttempts,
                 exhausted>>
  /\ UNCHANGED <<decoderVars, chunkVars, mcpTools, mcpResources, mcpPrompts>>

\* Ids the session and the listeners of AIClient take for message m.
McpNeeded(m) ==
  IF IsNotification(m, pendingRequests) /\ RefreshKind(m.method) # "none"
    THEN 2 * Takes(isConnected)
    ELSE Needed(m)

\* The requests after _handleMessage(m): for a list_changed notification the
\* listener of AIClient runs inside emit() and issues its list request
\* before the session issues its own.
McpAfterMessage(m) ==
  IF IsNotification(m, pendingRequests) /\ RefreshKind(m.method) # "none"
    THEN [correlator |->
            sendRequest(sendRequest(Correlator, RefreshKind(m.method),
                                    isConnected, connection),
                        RefreshKind(m.method), isConnected, connection),
          facadeRequests |->
            IF isConnected THEN facadeRequests \cup {NextId(requestId)}
            ELSE facadeRequests,
          initializeMcp |-> initializeMcp,
          mcpClients |-> mcpClients]
    ELSE Mcp(AfterMessage(m).correlator)

\* A message arrives at the session: _handleMessage runs, then the
\* continuations of the future it settled, in the session and in AIClient.
McpMessage(m) ==
  /\ conns # <<>>
  /\ conns[1].st = "open"
  /\ m \in Messages
  /\ FacadeRoom(McpNeeded(m))
  /\ SetMcp(AdvanceMcp(McpAfterMessage(m), isConnected, connection))
  /\ tools' = AfterMessage(m).tools
  /\ resources' = AfterMessage(m).resources
  /\ prompts' = AfterMessage(m).prompts
  /\ mcpTools' = RefreshedMaps(McpMaps, m.id, m).tools
  /\ mcpResources' = RefreshedMaps(McpMaps, m.id, m).resources
  /\ mcpPrompts' = RefreshedMaps(McpMaps, m.id, m).prompts
  /\ UNCHANGED <<transport, connection, isConnected, reconnectAttempts,
                 shouldReconnect, conns, reconnectTimers, disconnected,
                 autoAttempts, exhausted>>
  /\ UNCHANGED <<decoderVars, chunkVars>>

\* The timeout callback of request id runs, and the continuations of the
\* future it rejected.
McpTimeout(id) ==
  /\ id \in timers
  /\ SetMcp(AdvanceMcp(
       Mcp([Correlator EXCEPT
              !.timers = @ \ {id},
              !.pendingRequests = EntriesAfterTimeout(@, id),
              !.future = Settle(@, id, "timeout"),
              !.kind = Ran(@, id)]),
       isConnected, connection))
  /\ UNCHANGED <<transport, connection, isConnected, tools, resources,
                 prompts, reconnectAttempts, shouldReconnect, conns,
                 reconnectTimers, disconnected, autoAttempts, exhausted>>
  /\ UNCHANGED <<decoderVars, chunkVars, mcpTools, mcpResources, mcpPrompts>>

\* Where callMcpTool(toolName), readMcpResource(uri) or getMcpPrompt(name),
\* called without a server name, ends: the descriptor is looked up in the
\* flattened map and the session under the descriptor's serverName.
callMcpTool(key, map, cfg, clients) ==
  IF key \notin map THEN "not found"
  ELSE IF OwnerName(cfg) \notin clients THEN "not connected"
  ELSE "callTool"

McpMap(cat) ==
  CASE cat = "tools" -> mcpTools
    [] cat = "resources" -> mcpResources
    [] cat = "prompts" -> mcpPrompts

\* The caller calls callMcpTool, readMcpResource or getMcpPrompt with a key
\* and no server name: the call throws, or goes on to callTool, readResource
\* or getPrompt of the session.
CallMcpTool(cat, key) ==
  /\ cat \in Categories
  /\ key \in Keys
  /\ FacadeRoom(Takes(isConnected))
  /\ IF callMcpTool(key, McpMap(cat), serverConfig, mcpClients) = "callTool"
       THEN SetMcp(Mcp(callTool(Correlator, key, Registry(cat), isConnected,
                                connection)))
       ELSE SetMcp(Mcp(Correlator))
  /\ UNCHANGED <<transport, connection, isConnected, tools, resources,
                 prompts, reconnectAttempts, shouldReconnect, conns,
                 reconnectTimers, disconnected, autoAttempts, exhausted>>
  /\ UNCHANGED <<decoderVars, chunkVars, mcpTools, mcpResources, mcpPrompts>>

FacadeNext ==
  \/ InitializeMcp
  \/ McpTransportOpen
  \/ \E m \in Messages : McpMessage(m)
  \/ \E id \in Ids : McpTimeout(id)
  \/ \E cat \in Categories, key \in Keys : CallMcpTool(cat, key)

\* AIClient constructed with one MCP server, with or without a name.
McpInit ==
  /\ SessionInit
  /\ decoder = "transport"
  /\ apiFormat = "deepseek"
  /\ inbound = <<>>
  /\ arrived = <<>>
  /\ buffer = <<>>
  /\ handed = <<>>
  /\ errors = 0
  /\ streamLine = NoLine
  /\ streamChunk = NotCalled
  /\ FacadeInit
  /\ serverConfig \in ServerConfigs

SpecFacade == McpInit /\ [][FacadeNext]_vars

(***************************************************************************)
(* Decoders                                                                *)
(***************************************************************************)

\* Inbound text is a sequence of symbols: "nl" is a newline, "a" and "b" are
\* the two halves of the text of a JSON object, "d" is the text of a JSON
\* object that ends a generated stream (done is true, or the [DONE] line or a
\* finish_reason of the openai format).
\* The bytes on the wire: c3 a9 is the UTF-8 encoding of one character.
Symbols == {"a", "b", "d", "nl", "c3", "a9"}

Texts == UNION {[1 .. n -> Symbols] : n \in 0 .. MaxLen}

Front(seq) == SubSeq(seq, 1, Len(seq) - 1)

Last(seq) == seq[Len(seq)]

\* text.split("\n")
RECURSIVE Split(_)
Split(text) ==
  IF text = <<>> THEN << <<>> >>
  ELSE LET rest == Split(Tail(text)) IN
       IF Head(text) = "nl"
         THEN << <<>> >> \o rest
         ELSE << <<Head(text)>> \o Head(rest) >> \o Tail(rest)

\* text.trim(), and the white space JSON.parse skips around a value.
RECURSIVE TrimLeft(_)
TrimLeft(text) ==
  IF text # <<>> /\ Head(text) = "nl" THEN TrimLeft(Tail(text)) ELSE text

RECURSIVE TrimRight(_)
TrimRight(text) ==
  IF text # <<>> /\ Last(text) = "nl" THEN TrimRight(Front(text)) ELSE text

Trim(text) == TrimRight(TrimLeft(text))

\* chunk.toString(): the bytes of this chunk alone decoded as UTF-8.  A byte
\* sequence cut off by the end of the chunk, and a continuation byte without
\* its lead byte, each become the replacement character U+FFFD.
RECURSIVE toString(_)
toString(chunk) ==
  IF chunk = <<>> THEN <<>>
  ELSE IF Len(chunk) >= 2 /\ chunk[1] = "c3" /\ chunk[2] = "a9"
    THEN <<"eacute">> \o toString(SubSeq(chunk, 3, Len(chunk)))
  ELSE IF Head(chunk) \in {"c3", "a9"}
    THEN <<"fffd">> \o toString(Tail(chunk))
    ELSE <<Head(chunk)>> \o toString(Tail(chunk))

\* JSON.parse(text): the message "M", "D" or "E", the message "E" with its
\* character replaced ("X", "XX"), or a SyntaxError is thrown.
JSON_parse(text) ==
  CASE Trim(text) = <<"a", "b">> -> "M"
    [] Trim(text) = <<"d">> -> "D"
    [] Trim(text) = <<"eacute">> -> "E"
    [] Trim(text) = <<"fffd">> -> "X"
    [] Trim(text) = <<"fffd", "fffd">> -> "XX"
    [] OTHER -> "SyntaxError"

\* _parseStreamChunk(line): the deepseek format parses the line and lets the
\* SyntaxError through, the openai format returns null for a line it cannot
\* parse.
_parseStreamChunk(line) ==
  IF apiFormat = "openai" /\ JSON_parse(line) = "SyntaxError"
    THEN "null"
    ELSE JSON_parse(line)

\* The loop over the complete lines in the stdout 'data' handler: out is
\* what was handed to _handleMessage and the number of 'error' events.
RECURSIVE StdoutLines(_, _)
StdoutLines(lines, out) ==
  IF lines = <<>> THEN out
  ELSE LET line == Head(lines) IN
       StdoutLines(Tail(lines),
         IF Trim(line) = <<>> THEN out
         ELSE IF JSON_parse(line) = "SyntaxError"
           THEN [out EXCEPT !.errors = @ + 1]
           ELSE [out EXCEPT !.handed = Append(@, JSON_parse(line))])

\* The loop over the complete lines in the 'data' handler of generateStream:
\* a line that does not parse is skipped, a parsed chunk is handed to
\* onChunk, and after a chunk that is done the handler returns.
RECURSIVE StreamLines(_, _)
StreamLines(lines, h) ==
  IF lines = <<>> THEN h
  ELSE LET line == Head(lines)
           parsedChunk == _parseStreamChunk(line)
       IN IF Trim(line) = <<>> \/ parsedChunk \in {"null", "SyntaxError"}
            THEN StreamLines(Tail(lines), h)
          ELSE IF parsedChunk = "D"
            THEN Append(h, parsedChunk)
            ELSE StreamLines(Tail(lines), Append(h, parsedChunk))

\* A text is about to arrive at one of the handlers.  The api format plays
\* no part in the session's handlers, nor the session's transport in
\* generateStream.
DecoderInit ==
  /\ SessionInit
  /\ decoder \in {"transport", "generateStream"}
  /\ apiFormat \in {"deepseek", "openai"}
  /\ decoder = "transport" => apiFormat = "deepseek"
  /\ decoder = "generateStream" => transport = "stdio"
  /\ inbound \in Texts
  /\ arrived = <<>>
  /\ buffer = <<>>
  /\ handed = <<>>
  /\ errors = 0
  /\ streamLine = NoLine
  /\ streamChunk = NotCalled
  /\ FacadeInit
  /\ serverConfig = NamedServer

\* The next n symbols arrive at the session's transport: as a chunk of the
\* child process's stdout, or as one websocket message or one event of the
\* EventSource.
TransportData(n) ==
  /\ decoder = "transport"
  /\ n \in 1 .. Len(inbound)
  /\ inbound' = SubSeq(inbound, n + 1, Len(inbound))
  /\ arrived' = arrived \o SubSeq(inbound, 1, n)
  /\ IF transport = "stdio"
       THEN LET lines == Split(buffer \o toString(SubSeq(inbound, 1, n)))
                out == StdoutLines(Front(lines),
                                   [handed |-> handed, errors |-> errors])
            IN /\ buffer' = Last(lines)
               /\ handed' = out.handed
               /\ errors' = out.errors
       ELSE LET message == JSON_parse(toString(SubSeq(inbound, 1, n))) IN
            /\ buffer' = buffer
            /\ handed' = IF message = "SyntaxError"
                           THEN handed ELSE Append(handed, message)
            /\ errors' = IF message = "SyntaxError"
                           THEN errors + 1 ELSE errors
  /\ UNCHANGED <<decoder, apiFormat>>
  /\ UNCHANGED <<chunkVars, facadeVars>>
  /\ UNCHANGED sessionVars

\* The next n symbols arrive as a chunk of the response of generateStream.
StreamData(n) ==
  /\ decoder = "generateStream"
  /\ n \in 1 .. Len(inbound)
  /\ inbound' = SubSeq(inbound, n + 1, Len(inbound))
  /\ arrived' = arrived \o SubSeq(inbound, 1, n)
  /\ LET lines == Split(buffer \o toString(SubSeq(inbound, 1, n))) IN
       /\ buffer' = Last(lines)
       /\ handed' = StreamLines(Front(lines), handed)
  /\ UNCHANGED <<decoder, apiFormat, errors>>
  /\ UNCHANGED <<chunkVars, facadeVars>>
  /\ UNCHANGED sessionVars

DecoderNext ==
  \/ \E n \in 1 .. MaxLen : TransportData(n)
  \/ \E n \in 1 .. MaxLen : StreamData(n)

SpecDecoder == DecoderInit /\ [][DecoderNext]_vars

-----------------------------------------------------------------------------
\* _parseStreamChunk on the lines of a stream.  A line is "data: " or
\* nothing, followed by the sentinel [DONE], by a text that is not JSON, or
\* by a JSON object: its fields response and done (shape A), and choices
\* with, in its first element, delta.content and finish_reason (shape B).

Objects ==
  {o \in [prefix : {"data: ", ""}, text : {"json"},
          choices : {"absent", "empty", "one"},
          content : {"absent", "", "Hi"},
          finish_reason : {"absent", "null", "stop"},
          response : {"absent", "", "Hello"},
          done : {"absent", "false", "true"}] :
     o.choices # "one" => o.content = "absent" /\ o.finish_reason = "absent"}

Lines ==
  Objects \cup
  {[NoLine EXCEPT !.prefix = p, !.text = t] :
     p \in {"data: ", ""}, t \in {"[DONE]", "garbage"}}

\* parsed.choices?.[0]?.delta?.content || ""
DeltaContent(l) ==
  IF l.choices = "one" /\ l.content # "absent" THEN l.content ELSE ""

\* parsed.choices?.[0]?.finish_reason !== null
FinishReasonNotNull(l) ==
  IF l.choices = "one" /\ l.finish_reason = "null" THEN "false" ELSE "true"

\* _parseStreamChunk(line) with its fields written out: the chunk object,
\* null, or the SyntaxError of JSON.parse.
ParsedChunk(l) ==
  IF apiFormat = "openai"
    THEN IF l.prefix # "data: "
           THEN [NotCalled EXCEPT !.value = "null"]
         ELSE IF l.text = "[DONE]"
           THEN [value |-> "object", response |-> "absent", done |-> "true"]
         ELSE IF l.text = "garbage"
           THEN [NotCalled EXCEPT !.value = "null"]
           ELSE [value |-> "object", response |-> DeltaContent(l),
                 done |-> FinishReasonNotNull(l)]
    ELSE IF l.prefix = "" /\ l.text = "json"
           THEN [value |-> "object", response |-> l.response, done |-> l.done]
           ELSE [NotCalled EXCEPT !.value = "SyntaxError"]

\* if (parsedChunk.done || ...) resolve(): the chunk ends the stream.  The
\* chunk object of the openai format has no field choices.
EndsStream(chunk) == chunk.value = "object" /\ chunk.done = "true"

ChunkInit ==
  /\ SessionInit
  /\ transport = "stdio"
  /\ decoder = "generateStream"
  /\ apiFormat \in {"deepseek", "openai"}
  /\ inbound = <<>>
  /\ arrived = <<>>
  /\ buffer = <<>>
  /\ handed = <<>>
  /\ errors = 0
  /\ streamLine \in Lines
  /\ streamChunk = NotCalled
  /\ FacadeInit
  /\ serverConfig = NamedServer

ParseStreamChunk ==
  /\ streamLine # NoLine
  /\ streamChunk = NotCalled
  /\ streamChunk' = ParsedChunk(streamLine)
  /\ UNCHANGED <<streamLine, decoderVars, facadeVars, sessionVars>>

ChunkNext == ParseStreamChunk

SpecChunk == ChunkInit /\ [][ChunkNext]_vars

(***************************************************************************)
(* Claims                                                                  *)
(***************************************************************************)

Issued == 1 .. requestId

TransportFailure ==
  \E c \in 1 .. MaxConns : TransportClose(c) \/ SseError(c)

\* C1: when the transport reports closed while requests are in flight, every
\* in-flight future is rejected with ConnectionClosed in that step and the
\* pending map is emptied.
C1_CloseRejectsInFlight ==
  [][(\E c \in 1 .. MaxConns : TransportClose(c))
       => /\ pendingRequests' = {}
          /\ \A id \in pendingRequests :
               future[id] = "pending" => future'[id] = "closed"]_vars

\* C2: after disconnect(), and until the caller calls connect() again, no
\* transport is opened and the session does not become connected.
C2_DisconnectIsTerminal ==
  [][(disconnected /\ disconnected')
       => /\ Len(conns') = Len(conns)
          /\ (isConnected' => isConnected)]_vars

\* C3: without a call of connect() by the caller the session makes at most
\* maxReconnectAttempts automatic reconnection attempts.
C3_ReconnectBounded == autoAttempts <= maxReconnectAttempts

C4_Routes == {"result", "error", "timeout", "closed"}

C4_StateOK ==
  /\ \A id \in Issued :
       /\ future[id] \in {"pending", "sendfail"} \cup C4_Routes
       /\ future[id] = "pending" => id \in pendingRequests
       /\ id \in pendingRequests => future[id] \in {"pending", "sendfail"}
  /\ \A id \in Ids \ Issued : future[id] = "none" /\ id \notin pendingRequests

C4_StepOK ==
  \A id \in Ids :
    /\ future[id] \notin {"none", "pending"} => future'[id] = future[id]
    /\ (id \in Issued /\ id \notin pendingRequests)
         => id \notin pendingRequests'
    /\ (future[id] = "pending" /\ future'[id] # "pending")
         => id \notin pendingRequests' /\ future'[id] \in C4_Routes
    /\ (id \notin Issued /\ future'[id] # "none")
         => future'[id] \in {"pending", "sendfail"}

C5_IdsIncrease ==
  /\ Len(issued) > 0 => issued[1] = 1
  /\ \A i, j \in 1 .. Len(issued) : i < j => issued[i] < issued[j]

\* A request issued after disconnect() rejected an earlier one.
C5_Witness ==
  \E i, j \in 1 .. Len(issued) :
    i < j /\ future[issued[i]] = "closed" /\ future[issued[j]] = "pending"

\* C6: a request's timer is armed exactly while its entry is in the pending
\* map.
C6_TimerIffEntry == timers = pendingRequests

\* C7: disconnect() rejects every outstanding entry with ConnectionClosed and
\* leaves the pending map empty.
C7_DisconnectRejectsAll ==
  [][Disconnect
       => /\ pendingRequests' = {}
          /\ \A id \in pendingRequests :
               /\ future[id] = "pending" => future'[id] = "closed"
               /\ future'[id] # "pending"]_vars

\* disconnect() has rejected two requests that were in flight together.
C7_Witness ==
  /\ pendingRequests = {}
  /\ \E i, j \in Issued : i # j /\ future[i] = "closed" /\ future[j] = "closed"

\* C8: when the session moves to Disconnected, by disconnect() or by a
\* transport failure, the three registries are empty afterwards.
C8_RegistriesCleared ==
  [][(Disconnect \/ TransportFailure)
       => tools' = {} /\ resources' = {} /\ prompts' = {}]_vars

\* C9: isConnected is true exactly when the connection handle is non-null.
C9_ConnectedIffHandle == isConnected <=> connection # 0

\* C10: after a transport failure (child-process exit, socket close,
\* push-stream error event) isConnected is false.
C10_FailureDisconnects == [][TransportFailure => ~isConnected']_vars

C11_StateOK ==
  /\ \A id \in Issued :
       /\ future[id] = "timeout" => id \notin pendingRequests
       /\ id \notin timers => id \notin pendingRequests
  /\ \A m \in Messages :
       (m.id \in Issued /\ m.id \notin timers)
         => ~IsResponse(m, pendingRequests) /\ Needed(m) = 0

C11_StepOK ==
  \A id \in Ids :
    /\ (Timeout(id) /\ future[id] = "pending") => future'[id] = "timeout"
    /\ Timeout(id) => id \notin pendingRequests'
    /\ (id \in Issued /\ id \notin timers) => id \notin timers'
    /\ future[id] = "timeout" => future'[id] = "timeout"

ErrorResponse(id) ==
  /\ id \in pendingRequests
  /\ \E c \in 1 .. MaxConns :
       HandleMessage(c, [id |-> id, error |-> TRUE, method |-> "none",
                         result |-> {}])

\* C12: a timeout or an error response of one request removes that request's
\* entry and timer and changes nothing else: the other requests keep entry,
\* timer, future and continuation, isConnected and the connection handle are
\* unchanged, the reconnect counter is unchanged and no reconnection is
\* scheduled.
C12_FailureIsLocal ==
  [][\A id \in Ids :
       (Timeout(id) \/ ErrorResponse(id))
         => /\ pendingRequests' = pendingRequests \ {id}
            /\ timers' = timers \ {id}
            /\ \A j \in Ids \ {id} :
                 future'[j] = future[j] /\ kind'[j] = kind[j]
            /\ UNCHANGED <<isConnected, connection, conns, requestId,
                           reconnectAttempts, reconnectTimers,
                           shouldReconnect, tools, resources, prompts>>]_vars

\* One request failed with an error response while another one, issued
\* before it, is still in flight on a connected session.
C12_Witness ==
  \E i, j \in Issued :
    /\ i < j
    /\ future[j] = "error"
    /\ future[i] = "pending" /\ i \in pendingRequests /\ i \in timers
    /\ isConnected

\* A message shaped as a response (an id, no method) whose id has no entry.
Unmatched(m) ==
  m.id >= 0 /\ m.method = "none" /\ m.id \notin pendingRequests

\* C13: a response whose id has no entry in the pending map (settled, timed
\* out, rejected or never issued) does not take the response branch of
\* _handleMessage: handling it resolves and rejects no future, issues no
\* request and leaves the pending map, the timers and the registries as they
\* are.
C13_UnmatchedIgnored ==
  \A m \in Messages :
    Unmatched(m)
      => /\ Branch(m, pendingRequests) # "response"
         /\ AfterMessage(m) = Session

\* A request was answered while another one is in flight and a transport is
\* open: a duplicate of the answer can arrive.
C13_Witness ==
  \E id \in Issued, c \in 1 .. Len(conns) :
    /\ future[id] = "result" /\ id \notin pendingRequests
    /\ pendingRequests # {}
    /\ conns[c].st = "open"

\* Some transport object of the session is open.
HasOpenConnection == \E c \in 1 .. Len(conns) : conns[c].st = "open"

C15_ListReplaces ==
  \A m \in Messages :
    (IsResponse(m, pendingRequests) /\ future[m.id] = "pending" /\ ~m.error)
      => /\ kind[m.id] = "tools/list" => AfterMessage(m).tools = m.result
         /\ kind[m.id] = "resources/list"
              => AfterMessage(m).resources = m.result
         /\ kind[m.id] = "prompts/list" => AfterMessage(m).prompts = m.result

\* The tools registry holds {a, b} from an earlier list while another list
\* of the tools is in flight on an open transport.
C15_Witness ==
  \E id \in pendingRequests, c \in 1 .. Len(conns) :
    /\ tools = {"a", "b"}
    /\ kind[id] = "tools/list" /\ future[id] = "pending"
    /\ conns[c].st = "open"

\* The category a list_changed notification is about.
C16_Category(method) ==
  CASE method = "notifications/tools/list_changed" -> "tools/list"
    [] method = "notifications/resources/list_changed" -> "resources/list"
    [] method = "notifications/prompts/list_changed" -> "prompts/list"

\* The list_changed notifications, while the ids last.
C16_ListChanged ==
  {m \in Messages :
     /\ m.id = -1
     /\ m.method \in {"notifications/tools/list_changed",
                       "notifications/resources/list_changed",
                       "notifications/prompts/list_changed"}
     /\ Room(Takes(isConnected))}

\* C16: handling a list_changed notification calls the list operation of
\* exactly that category (on a connected session one request is issued, for
\* that category; nothing else changes), and however that list operation
\* ends, at once (not connected, send failure) or later (timeout, error
\* response, disconnect), the rejection is caught: nothing is thrown out of
\* the message handling and no rejection stays unhandled.
C16_RefreshSwallowed ==
  /\ \A m \in C16_ListChanged :
       LET after == AfterMessage(m)
           id == requestId + 1
       IN /\ after.tools = tools
          /\ after.resources = resources
          /\ after.prompts = prompts
          /\ IF isConnected
               THEN /\ after.correlator.requestId = id
                    /\ after.correlator.issued = Append(issued, id)
                    /\ after.correlator.pendingRequests
                         = pendingRequests \cup {id}
                    /\ \/ after.correlator.kind[id] = C16_Category(m.method)
                       \/ after.correlator.future[id] = "sendfail"
               ELSE after.correlator = Correlator
          /\ Caught(RefreshOutcome(isConnected, connection))
               \notin Rejections
  /\ \A outcome \in Rejections : Caught(outcome) \notin Rejections

\* A list_changed notification can arrive on an open transport while the
\* session is not connected: its refresh fails with NotConnected.
C16_Witness ==
  /\ ~isConnected
  /\ shouldReconnect
  /\ \E c \in 1 .. Len(conns) : conns[c].st = "open"

\* C17: handling notifications/resources/updated emits resource_updated and
\* does nothing else: no request is issued, and the pending map, the timers
\* and the registries are unchanged.
C17_UpdatedForwarded ==
  \A m \in Messages :
    (m.id = -1 /\ m.method = "notifications/resources/updated")
      => /\ Emitted(m, pendingRequests) = "resource_updated"
         /\ Needed(m) = 0
         /\ AfterMessage(m) = Session

\* A connected session with resources listed and a request in flight, on
\* whose open transport the notification can arrive.
C17_Witness ==
  /\ isConnected
  /\ resources # {}
  /\ \E id \in pendingRequests : future[id] = "pending"
  /\ connection # 0 /\ conns[connection].st = "open"

\* C18: a message that carries an id and a method takes neither branch of
\* _handleMessage and changes nothing, also when its id is that of an
\* in-flight request.
C18_RequestsIgnored ==
  \A m \in Messages :
    (m.id > 0 /\ m.method # "none")
      => /\ Branch(m, pendingRequests) = "ignored"
         /\ AfterMessage(m) = Session

\* C19: no inbound text, malformed lines included, makes a transport handler
\* of the session emit an 'error' event.
C19_MalformedSilent == decoder = "transport" => errors = 0

\* The values of the lines that parse.
RECURSIVE ValidOf(_)
ValidOf(lines) ==
  IF lines = <<>> THEN <<>>
  ELSE (IF JSON_parse(Head(lines)) = "SyntaxError"
          THEN <<>> ELSE <<JSON_parse(Head(lines))>>)
       \o ValidOf(Tail(lines))

\* What a line decoder has to have handed on when the bytes of text have
\* arrived: the values of the valid lines completed by a newline, in their
\* order.
Decoded(text) == ValidOf(Front(Split(toString(text))))

\* The messages with a replaced character taken for the message they were
\* sent as.
Intact(messages) ==
  [i \in 1 .. Len(messages) |->
     IF messages[i] \in {"X", "XX"} THEN "E" ELSE messages[i]]

LineDecoder ==
  decoder = "generateStream" \/ (decoder = "transport" /\ transport = "stdio")

\* C20: the stdout decoder of the session and the decoder of generateStream
\* have handed on exactly one message per valid complete line that arrived,
\* in arrival order, whatever malformed lines lie in between.
C20_ValidLinesDecoded ==
  LineDecoder => Intact(handed) = Intact(Decoded(arrived))

\* The part of C20 that is about the stdout decoder of the session.
C20_StdoutDecoded ==
  (decoder = "transport" /\ transport = "stdio")
    => Intact(handed) = Intact(Decoded(arrived))

\* C21: whatever the chunks the bytes arrived in, the stdout decoder has
\* dispatched the messages of the complete lines of the byte stream, each
\* once, and nothing of the line still open.
C21_ChunkIndependent ==
  (decoder = "transport" /\ transport = "stdio")
    => handed = Decoded(arrived)

\* The part of C21 that is about when a line is dispatched: one message per
\* valid complete line, none for the text after the last newline.
C21_CompleteLinesOnce ==
  (decoder = "transport" /\ transport = "stdio")
    => /\ Len(handed) = Len(Decoded(arrived))
       /\ \A i \in 1 .. Len(buffer) : buffer[i] # "nl"

\* C22: in generateStream no chunk is handed to onChunk after a chunk that is
\* done has been handed to it, whatever arrives later.
C22_NothingAfterTerminal ==
  decoder = "generateStream"
    => \A i \in 1 .. Len(handed) - 1 : handed[i] # "D"

\* A frame `data: <json>` whose json carries a choice with its delta.
ShapeB(l) == l.prefix = "data: " /\ l.text = "json" /\ l.choices = "one"

\* C23: of a shape-B frame the openai format makes a chunk that is done only
\* if the frame has a finish reason.
C23_DoneOnlyWithFinishReason ==
  (apiFormat = "openai" /\ ShapeB(streamLine) /\ EndsStream(streamChunk))
    => streamLine.finish_reason = "stop"

\* The rest of C23: the delta text with done false under a null finish
\* reason, done under a finish reason, the sentinel, and shape A.
C23_Normalised ==
  streamChunk # NotCalled =>
    /\ (apiFormat = "openai" /\ ShapeB(streamLine)
          /\ streamLine.finish_reason = "null")
         => streamChunk = [value |-> "object", done |-> "false",
                           response |-> IF streamLine.content = "absent"
                                          THEN "" ELSE streamLine.content]
    /\ (apiFormat = "openai" /\ ShapeB(streamLine)
          /\ streamLine.finish_reason = "stop")
         => EndsStream(streamChunk)
    /\ (apiFormat = "openai" /\ streamLine.prefix = "data: "
          /\ streamLine.text = "[DONE]")
         => streamChunk = [value |-> "object", done |-> "true",
                           response |-> "absent"]
    /\ (apiFormat = "deepseek" /\ streamLine.prefix = ""
          /\ streamLine.text = "json")
         => streamChunk = [value |-> "object", done |-> streamLine.done,
                           response |-> streamLine.response]

\* C24: once the session has stopped with its attempts used up, no reconnect
\* is scheduled any more, whatever the caller and the transport do.
C24_ReconnectDisabled == exhausted => reconnectTimers = 0

\* Transport object c was created by the timer of _handleReconnect: it is
\* the latest one, and a timer has fired since the caller called connect().
ReconnectionAttempt(c) == c = Len(conns) /\ autoAttempts > reconnectTimers

\* C25: when a reconnection attempt fails before its transport opened and
\* attempts remain, a further reconnection is scheduled.
C25_FailedAttemptRetried ==
  [][\A c \in 1 .. MaxConns :
       (/\ TransportOpenError(c)
        /\ ReconnectionAttempt(c)
        /\ CanReconnect(shouldReconnect, reconnectAttempts))
         => reconnectTimers' = reconnectTimers + 1]_vars

\* C26: the handler of a transport that closes on a connected session emits
\* no 'reconnecting' event; the event comes when the delay has elapsed.
C26_ReconnectingAfterDelay ==
  [][((\E c \in 1 .. MaxConns : TransportClose(c)) /\ isConnected)
       => Reconnecting(shouldReconnect, reconnectAttempts) = 0]_vars

\* The rest of C26: the first close of a connected session that may
\* reconnect announces attempt 1 and arms one timer, and the timer opens a
\* transport.
C26_AttemptOneThenConnecting ==
  [][/\ ((\E c \in 1 .. MaxConns : TransportClose(c))
           /\ isConnected /\ shouldReconnect /\ reconnectAttempts = 0)
          => /\ Reconnecting(shouldReconnect, reconnectAttempts) = 1
             /\ reconnectTimers' = reconnectTimers + 1
     /\ ReconnectTimerFires
          => /\ Len(conns') = Len(conns) + 1
             /\ conns'[Len(conns')].st = "opening"]_vars

\* C27: on an sse session _sendMessage throws its explicit error whatever
\* the handle is, so every request that got an id was rejected by the failed
\* send and none is in flight; no future ever resolves, the initialize
\* request of connect() included, and no continuation runs on a result: the
\* session never emits initialized and never fills a registry.
C27_SseNeverSends ==
  transport = "sse" =>
    /\ SendError(connection)
         = "SSE transport does not support sending messages"
    /\ \A id \in Ids :
         /\ future[id] \in {"none", "sendfail"}
         /\ kind[id] = "none"
         /\ id \in Issued <=> future[id] = "sendfail"
    /\ tools = {} /\ resources = {} /\ prompts = {}

C27_Witness ==
  /\ transport = "sse"
  /\ isConnected
  /\ Len(issued) >= 2
  /\ \A i \in 1 .. Len(issued) : future[issued[i]] = "sendfail"

\* C28: in every state, a second disconnect() right after a first one
\* changes nothing of what the first one left, rejects no future and does
\* not throw.
C28_DisconnectIdempotent ==
  LET once == disconnect(DisconnectState) IN
    /\ disconnect(once) = once
    /\ ~disconnect(once).thrown

\* disconnect() has rejected a request in flight and closed the transport,
\* and a second call finds the session as the first one left it.
C28_Witness ==
  /\ disconnected
  /\ DisconnectState = disconnect(DisconnectState)
  /\ \E c \in 1 .. Len(conns) : conns[c].st \in {"aborted", "closed", "open"}
  /\ \E id \in Ids : future[id] = "closed"

\* Response m can arrive and resolves a list request of kind k that a
\* _refreshMcp* of AIClient awaits, which then writes the map of k.
FacadeResolves(m, k) ==
  /\ conns # <<>>
  /\ conns[1].st = "open"
  /\ IsResponse(m, pendingRequests)
  /\ m.id \in facadeRequests
  /\ future[m.id] = "pending"
  /\ ~m.error
  /\ kind[m.id] = k

\* C29: when AIClient writes a map after a list request of its own, no
\* other list request of that category is pending in the session.
C29_NoConcurrentRefresh ==
  \A m \in Messages, k \in ListKinds :
    FacadeResolves(m, k)
      => \A id \in Ids \ {m.id} : ~(future[id] = "pending" /\ kind[id] = k)

\* C30: after AIClient refreshed a map from a list, the map holds the
\* descriptors of that list and no other.
C30_MapReplaced ==
  \A m \in Messages :
    /\ FacadeResolves(m, "tools/list")
         => RefreshedMaps(McpMaps, m.id, m).tools = m.result
    /\ FacadeResolves(m, "resources/list")
         => RefreshedMaps(McpMaps, m.id, m).resources = m.result
    /\ FacadeResolves(m, "prompts/list")
         => RefreshedMaps(McpMaps, m.id, m).prompts = m.result

\* The part of C30 that holds: the refresh puts every descriptor of the new
\* list into the map, and leaves the maps of the other categories alone.
C30_ListAdded ==
  \A m \in Messages :
    /\ FacadeResolves(m, "tools/list")
         => RefreshedMaps(McpMaps, m.id, m)
              = [McpMaps EXCEPT !.tools = @ \cup m.result]
    /\ FacadeResolves(m, "resources/list")
         => RefreshedMaps(McpMaps, m.id, m)
              = [McpMaps EXCEPT !.resources = @ \cup m.result]
    /\ FacadeResolves(m, "prompts/list")
         => RefreshedMaps(McpMaps, m.id, m)
              = [McpMaps EXCEPT !.prompts = @ \cup m.result]

\* A step that settles the in-flight request id from a response.
C31_Answered(id) ==
  /\ id \in pendingRequests /\ future[id] = "pending"
  /\ future'[id] \in {"result", "error"}

C31_StateOK ==
  \A m \in Messages :
    (IsResponse(m, pendingRequests) /\ future[m.id] = "pending"
       /\ Room(Needed(m)))
      => LET after == AfterMessage(m)
             k == kind[m.id]
         IN /\ after.correlator.future[m.id]
                 = (IF m.error THEN "error" ELSE "result")
            /\ m.id \notin after.correlator.pendingRequests
            /\ (~m.error /\ k = "tools/list") => after.tools = m.result
            /\ (~m.error /\ k = "resources/list")
                 => after.resources = m.result
            /\ (~m.error /\ k = "prompts/list") => after.prompts = m.result
            /\ m.error => /\ after.tools = tools
                          /\ after.resources = resources
                          /\ after.prompts = prompts

C31_StepOK ==
  \A id \in Ids :
    C31_Answered(id) => UNCHANGED <<isConnected, connection, conns,
                                    reconnectAttempts, reconnectTimers>>

\* C31: a response whose id is that of an in-flight request resolves the
\* request with the result of the response when it carries no error (a list
\* request hands exactly that result to its registry) and rejects it with
\* the error of the response when it carries one; the step leaves
\* isConnected, the connection and the transport objects as they are and
\* schedules no reconnection.
C31_ResponseSettles == []C31_StateOK /\ [][C31_StepOK]_vars

\* One request was rejected by an error response and a later one resolved by
\* a result, and the session is still connected on its open transport.
C31_Witness ==
  \E i, j \in Issued :
    /\ i < j
    /\ future[i] = "error" /\ future[j] = "result"
    /\ isConnected
    /\ connection # 0 /\ conns[connection].st = "open"

\* C32: a message arriving on an open transport is dispatched as a
\* notification exactly when it carries no id (in Messages: id = -1): each
\* of the four recognized methods then emits its own event and every other
\* method the generic 'notification' event, and a message that carries an
\* id, whether issued or not, emits nothing.
C32_NotificationIffNoId ==
  HasOpenConnection
    => \A m \in Messages :
         /\ Branch(m, pendingRequests) = "notification" <=> m.id = -1
         /\ m.id = -1
              => Emitted(m, pendingRequests)
                   = (CASE m.method = "notifications/resources/updated"
                             -> "resource_updated"
                        [] m.method = "notifications/resources/list_changed"
                             -> "resources_changed"
                        [] m.method = "notifications/tools/list_changed"
                             -> "tools_changed"
                        [] m.method = "notifications/prompts/list_changed"
                             -> "prompts_changed"
                        [] OTHER -> "notification")
         /\ m.id # -1 => Emitted(m, pendingRequests) = "none"

C33_StateOK ==
  /\ \A cat \in Categories, key \in Keys :
       LET after == callTool(Correlator, key, Registry(cat), isConnected,
                             connection)
           id == requestId + 1
       IN IF isConnected
            THEN Room(1)
                   => /\ after.requestId = id
                      /\ after.issued = Append(issued, id)
                      /\ after.pendingRequests = pendingRequests \cup {id}
                      /\ after.timers = timers \cup {id}
                      /\ after.future[id] \in {"pending", "sendfail"}
                      /\ after.future[id] = "pending"
                           <=> ~SendThrows(connection)
            ELSE after = Correlator
  /\ \A m \in Messages :
       (IsResponse(m, pendingRequests) /\ kind[m.id] = "call")
         => /\ AfterMessage(m).tools = tools
            /\ AfterMessage(m).resources = resources
            /\ AfterMessage(m).prompts = prompts

\* A step in which a request of callTool, readResource or getPrompt is
\* issued leaves the registries as they are.
C33_StepOK ==
  (/\ requestId' = requestId + 1
   /\ kind'[requestId'] = "call")
    => UNCHANGED <<tools, resources, prompts>>

\* C33: callTool, readResource and getPrompt go through sendRequest for the
\* given key whether or not the key is in the registry of their category:
\* on a connected session each call allocates the next id and stores its
\* entry and timer (on a session that is not connected each fails with
\* NotConnected, in the registry or not); neither the call nor the response
\* to it changes a registry.
C33_GetBypassesCache == []C33_StateOK /\ [][C33_StepOK]_vars

\* The tools registry holds the key a from a list, and a call issued on the
\* connected session is in flight.
C33_Witness ==
  /\ "a" \in tools
  /\ isConnected
  /\ \E id \in pendingRequests :
       kind[id] = "call" /\ future[id] = "pending"

\* The initialize request of the first connect is the only request of the
\* session so far and no response to it has arrived.
C34_InitializeInFlight ==
  /\ HasOpenConnection
  /\ isConnected
  /\ requestId = 1
  /\ kind[1] = "_initialize" /\ future[1] = "pending"
  /\ 1 \in pendingRequests

\* C34: after the transport opened, the session is connected and the
\* initialize request is sent, the session sends its list requests only
\* once the initialize response has arrived: while the initialize request is
\* in flight, handling a message issues requests only when the message is
\* the result answering it, and then the three list requests, in the order
\* tools, resources, prompts.
C34_ListsAfterInitialize ==
  C34_InitializeInFlight
    => \A m \in Messages :
         LET after == AfterMessage(m).correlator IN
         /\ after.requestId > requestId => (m.id = 1 /\ ~m.error)
         /\ (m.id = 1 /\ ~m.error)
              => /\ after.issued = issued \o <<2, 3, 4>>
                 /\ ~SendThrows(connection)
                      => /\ after.kind[2] = "tools/list"
                         /\ after.kind[3] = "resources/list"
                         /\ after.kind[4] = "prompts/list"

\* A step in which transport object c fails before it opened.
C35_FailsBeforeOpen(c) ==
  /\ c \in 1 .. Len(conns)
  /\ conns[c].st = "opening"
  /\ conns'[c].st = "closed"
  /\ ~disconnected'

\* C35: a step in which a transport fails before it opened arms no
\* reconnect timer and counts no reconnection attempt.
C35_NoReconnectBeforeOpen ==
  [][\A c \in 1 .. MaxCycleConns :
       C35_FailsBeforeOpen(c)
         => /\ reconnectTimers' = reconnectTimers
            /\ reconnectAttempts' = reconnectAttempts]_vars

\* C36: for every key in a flattened map of AIClient, callMcpTool,
\* readMcpResource or getMcpPrompt called with that key and no server name
\* finds the session: the serverName of the descriptor is a key of
\* mcpClients, whether the server configuration has a name or not.
C36_OwnerIsStored ==
  \A cat \in Categories :
    \A key \in McpMap(cat) :
      callMcpTool(key, McpMap(cat), serverConfig, mcpClients) = "callTool"

\* C37: every request that sendRequest accepted, so that its future is
\* pending, is settled in the end: by a response, by its timeout or by
\* disconnect(), whatever the transport does in between.
C37_EverySettles ==
  \A id \in Ids : (future[id] = "pending") ~> (future[id] # "pending")

\* A request is in flight with no open transport left to answer it: only
\* its timer can settle it.
C37_Witness ==
  \E id \in Ids :
    /\ future[id] = "pending"
    /\ id \in timers
    /\ ~HasOpenConnection

\* The transport objects of the session that are open or opening (an
\* EventSource that retries by itself is opening again).
C38_Alive ==
  {c \in 1 .. Len(conns) : conns[c].st \in {"opening", "open", "retrying"}}

\* C38: at any time the session has at most one transport object that is
\* open or opening, and at most one reconnect timer armed.
C38_OneConnectionOneTimer ==
  /\ Cardinality(C38_Alive) <= 1
  /\ reconnectTimers <= 1

\* C39: a request whose hand-over to the transport failed inside
\* sendRequest (its future is rejected with the send error) has no entry in
\* the pending map and no armed timer.
C39_SendFailureCleansUp ==
  \A id \in Ids :
    future[id] = "sendfail" => (id \notin pendingRequests /\ id \notin timers)

\* In this step a pending request of kind k resolves with a result.
C40_Resolves(k) ==
  \E id \in Ids :
    kind[id] = k /\ future[id] = "pending" /\ future'[id] = "result"

\* In this step a pending request of kind k fails: error response, timeout
\* or connection closed.
C40_Fails(k) ==
  \E id \in Ids :
    /\ kind[id] = k /\ future[id] = "pending"
    /\ future'[id] \in {"error", "timeout", "closed"}

\* A list called on a session that is not connected allocates no id and
\* stores nothing.
C40_NotConnectedOK ==
  ~isConnected
    => \A k \in ListKinds : sendRequest(Correlator, k, isConnected, connection)
                              = Correlator

C40_StepOK ==
  /\ C40_Fails("tools/list") => tools' = tools
  /\ C40_Fails("resources/list") => resources' = resources
  /\ C40_Fails("prompts/list") => prompts' = prompts
  /\ tools' # tools => C40_Resolves("tools/list")
  /\ resources' # resources => C40_Resolves("resources/list")
  /\ prompts' # prompts => C40_Resolves("prompts/list")

\* C40: a step in which a list request fails (error response, timeout,
\* connection closed) leaves the registry of its category unchanged, a list
\* called on a session that is not connected issues nothing, and a registry
\* changes only in a step in which a list request of its category resolves
\* with a result.
C40_FailedListKeepsRegistry == []C40_NotConnectedOK /\ [][C40_StepOK]_vars

\* The tools registry holds {a, b} from a list that resolved, a later
\* request failed with an error response, and the initialize request is
\* still in flight, so that requests 2 and 3 are requests of the caller or
\* refreshes.
C40_Witness ==
  /\ tools = {"a", "b"}
  /\ requestId >= 3
  /\ future[1] = "pending"
  /\ future[2] = "result"
  /\ future[3] \in {"error", "timeout", "closed"}

====
